---- MODULE Spec2Model ----
(***************************************************************************)
(* Connect-four engine of connect4/src/main.rs: the board, check_state,    *)
(* check_action, apply_action, the play driver, rand_agent and mcts_agent. *)
(***************************************************************************)
EXTENDS Integers, Sequences, FiniteSets, TLC

ROWS == 6
COLS == 7

(* Option<usize>: None is the empty sequence, Some(p) the one-element one. *)
None == << >>
Some(p) == << p >>

Cells == 0 .. (ROWS * COLS - 1)
Columns == 0 .. (COLS - 1)

(* Connect4State::default() *)
DefaultState == [board |-> [i \in Cells |-> None], next_player |-> 0]

(* Connect4Check / Connect4Result *)
InProgress == [tag |-> "InProgress"]
Winner(p) == [tag |-> "Winner", player |-> p]
Tie == [tag |-> "Tie"]
Over(result) == [tag |-> "Over", result |-> result]
Panic == [tag |-> "Panic"]

(* Result<_, ActionError> *)
Ok(v) == [tag |-> "Ok", value |-> v]
UnknownColumn(c) == [tag |-> "UnknownColumn", column |-> c]
FullColumn(c) == [tag |-> "FullColumn", column |-> c]
Err(e) == [tag |-> "Err", error |-> e]

(***************************************************************************)
(* check_state: the four scans in the order of the code, each window being *)
(* the four board indices the code reads.  The loop bounds 0..3, 0..4 and  *)
(* 3..6 are the literals of the code.                                      *)
(***************************************************************************)
VerticalWindows ==
    [n \in 1 .. (COLS * 3) |->
        LET col == (n - 1) \div 3
            row == (n - 1) % 3
        IN  << col * ROWS + row + 0, col * ROWS + row + 1,
               col * ROWS + row + 2, col * ROWS + row + 3 >>]

(* mutant: the horizontal scan stops one starting column early (0..3) *)
HorizontalWindowsShort ==
    [n \in 1 .. (ROWS * 3) |->
        LET row == (n - 1) \div 3
            col == (n - 1) % 3
        IN  << (col + 0) * ROWS + row, (col + 1) * ROWS + row,
               (col + 2) * ROWS + row, (col + 3) * ROWS + row >>]

HorizontalWindows ==
    [n \in 1 .. (ROWS * 4) |->
        LET row == (n - 1) \div 4
            col == (n - 1) % 4
        IN  << (col + 0) * ROWS + row, (col + 1) * ROWS + row,
               (col + 2) * ROWS + row, (col + 3) * ROWS + row >>]

DiagUpWindows ==
    [n \in 1 .. (4 * 3) |->
        LET col == (n - 1) \div 3
            row == (n - 1) % 3
        IN  << (col + 0) * ROWS + row + 0, (col + 1) * ROWS + row + 1,
               (col + 2) * ROWS + row + 2, (col + 3) * ROWS + row + 3 >>]

DiagDownWindows ==
    [n \in 1 .. (4 * 3) |->
        LET col == (n - 1) \div 3
            row == 3 + ((n - 1) % 3)
        IN  << (col + 0) * ROWS + row - 0, (col + 1) * ROWS + row - 1,
               (col + 2) * ROWS + row - 2, (col + 3) * ROWS + row - 3 >>]

ScanWindows ==
    VerticalWindows \o HorizontalWindows \o DiagUpWindows \o DiagDownWindows

(* the match arm (Some(i), Some(j), Some(k), Some(l)) if i == j && ... *)
WindowMatches(board, w) ==
    /\ board[w[1]] # None
    /\ board[w[1]] = board[w[2]]
    /\ board[w[2]] = board[w[3]]
    /\ board[w[3]] = board[w[4]]

(* mutant: the tie loop reads the bottom cell of each column *)
TieCheckBottom(board) ==
    IF \E col \in Columns : board[col * ROWS] = None
    THEN InProgress
    ELSE Over(Tie)

(* the tie loop: InProgress at the first column whose top cell is None *)
TieCheck(board) ==
    IF \E col \in Columns : board[col * ROWS + ROWS - 1] = None
    THEN InProgress
    ELSE Over(Tie)

(* an index outside the Vec of ROWS * COLS cells panics *)
ScanOutside ==
    \E n \in 1 .. Len(ScanWindows) : \E k \in 1 .. 4 : ScanWindows[n][k] \notin Cells

check_state(st) ==
    LET board == st.board
        hits == {n \in 1 .. Len(ScanWindows) :
                      WindowMatches(board, ScanWindows[n])}
        first == CHOOSE n \in hits : \A m \in hits : n <= m
    IN  IF ScanOutside THEN Panic
        ELSE IF hits # {} THEN Over(Winner(board[ScanWindows[first][1]][1]))
        ELSE TieCheck(board)

(* mutant: the bottom cell of the column is tested *)
check_action_bottom(st, column) ==
    IF column >= COLS THEN FALSE
    ELSE st.board[column * ROWS] = None

(* check_action *)
check_action(st, column) ==
    IF column >= COLS THEN FALSE
    ELSE st.board[column * ROWS + ROWS - 1] = None

(***************************************************************************)
(* apply_action: the new state and the returned Result.                    *)
(***************************************************************************)
EmptyRows(st, column) == {row \in 0 .. (ROWS - 1) : st.board[column * ROWS + row] = None}

(* mutant: the row loop runs from the top *)
HighestEmptyRow(st, column) ==
    CHOOSE row \in EmptyRows(st, column) : \A r \in EmptyRows(st, column) : row >= r

LowestEmptyRow(st, column) ==
    CHOOSE row \in EmptyRows(st, column) : \A r \in EmptyRows(st, column) : row <= r

(* mutant: the turn is not handed over *)
SamePlayer(p) == p

(* state.next_player = 1 - state.next_player *)
OtherPlayer(p) == 1 - p

(* mutant: the status returned is that of the state before the drop *)
apply_action_stale(st, column) ==
    IF column >= COLS
    THEN [state |-> st, ret |-> Err(UnknownColumn(column))]
    ELSE IF EmptyRows(st, column) = {}
    THEN [state |-> st, ret |-> Err(FullColumn(column))]
    ELSE LET row == LowestEmptyRow(st, column)
             placed == [st.board EXCEPT ![column * ROWS + row] = Some(st.next_player)]
             next == [board |-> placed, next_player |-> OtherPlayer(st.next_player)]
         IN  [state |-> next, ret |-> Ok(check_state(st))]

(* mutant: the turn is handed over before the row loop, also when it finds no row *)
apply_action_toggleFirst(st, column) ==
    IF column >= COLS
    THEN [state |-> st, ret |-> Err(UnknownColumn(column))]
    ELSE IF EmptyRows(st, column) = {}
    THEN [state |-> [st EXCEPT !.next_player = OtherPlayer(st.next_player)],
          ret |-> Err(FullColumn(column))]
    ELSE LET row == LowestEmptyRow(st, column)
             placed == [st.board EXCEPT ![column * ROWS + row] = Some(st.next_player)]
             next == [board |-> placed, next_player |-> OtherPlayer(st.next_player)]
         IN  [state |-> next, ret |-> Ok(check_state(next))]

(* mutant: the range test is missing and the column index wraps around *)
apply_action_wrap(st, column) ==
    LET wrapped == column % COLS
    IN  IF EmptyRows(st, wrapped) = {}
        THEN [state |-> st, ret |-> Err(FullColumn(column))]
        ELSE LET row == LowestEmptyRow(st, wrapped)
                 placed == [st.board EXCEPT ![wrapped * ROWS + row] = Some(st.next_player)]
                 next == [board |-> placed, next_player |-> OtherPlayer(st.next_player)]
             IN  [state |-> next, ret |-> Ok(check_state(next))]

apply_action(st, column) ==
    IF column >= COLS
    THEN [state |-> st, ret |-> Err(UnknownColumn(column))]
    ELSE IF EmptyRows(st, column) = {}
    THEN [state |-> st, ret |-> Err(FullColumn(column))]
    ELSE LET row == LowestEmptyRow(st, column)
             placed == [st.board EXCEPT ![column * ROWS + row] = Some(st.next_player)]
             next == [board |-> placed, next_player |-> OtherPlayer(st.next_player)]
         IN  [state |-> next, ret |-> Ok(check_state(next))]

(* the state after the successive drops of a sequence of columns *)
RECURSIVE Replay(_, _)
Replay(st, columns) ==
    IF columns = << >> THEN st
    ELSE LET n == Len(columns)
         IN  apply_action(Replay(st, SubSeq(columns, 1, n - 1)), columns[n]).state

(***************************************************************************)
(* Bounds of the exploration.                                              *)
(***************************************************************************)
(* successful drops explored from each starting position *)
MaxMoves == 4
(* largest column index handed to apply_action (COLS and above: out of range) *)
MaxColumn == 8

(***************************************************************************)
(* Starting positions: each is the default state after a sequence of       *)
(* apply_action calls.  DrawGame is a complete game of 42 drops in which   *)
(* no four-in-a-row ever appears.                                          *)
(***************************************************************************)
DrawGame ==
    << 0, 4, 3, 0, 3, 2, 6, 2, 2, 0, 4, 1, 1, 4, 1, 1, 4, 0, 0, 6, 2,
       3, 4, 3, 2, 1, 4, 1, 5, 3, 3, 2, 0, 5, 6, 6, 6, 6, 5, 5, 5, 5 >>

VerticalGame == << 3, 0, 3, 0, 3, 0 >>
HorizontalGame == << 0, 0, 1, 1, 2, 2 >>
DiagUpGame == << 0, 1, 1, 2, 2, 3, 2, 3, 3, 6 >>
DiagDownGame == << 6, 5, 5, 4, 4, 3, 4, 3, 3, 0 >>

(* the positions of DrawGame after 12, 24, 36, ... drops, replayed in stages *)
DrawAt12 == Replay(DefaultState, SubSeq(DrawGame, 1, 12))
DrawAt24 == Replay(DrawAt12, SubSeq(DrawGame, 13, 24))
DrawAt30 == Replay(DrawAt24, SubSeq(DrawGame, 25, 30))
DrawAt36 == Replay(DrawAt24, SubSeq(DrawGame, 25, 36))
DrawAt38 == Replay(DrawAt36, SubSeq(DrawGame, 37, 38))
DrawAt39 == Replay(DrawAt36, SubSeq(DrawGame, 37, 39))
DrawAt40 == Replay(DrawAt36, SubSeq(DrawGame, 37, 40))

SeedStates ==
    { Replay(DefaultState, g) :
        g \in { << >>, VerticalGame, HorizontalGame, DiagUpGame, DiagDownGame } }
    \cup { DrawAt38, DrawAt39 }

(* a game of 40 drops that player 1 wins with the last one (column 5) *)
WinGame ==
    << 1, 2, 6, 1, 1, 3, 4, 2, 3, 4, 4, 3, 2, 6, 4, 4, 0, 4, 6, 3,
       0, 3, 3, 1, 2, 1, 2, 2, 5, 0, 5, 1, 0, 5, 6, 6, 0, 5, 0, 5 >>

WinAt12 == Replay(DefaultState, SubSeq(WinGame, 1, 12))
WinAt24 == Replay(WinAt12, SubSeq(WinGame, 13, 24))
WinAt32 == Replay(WinAt24, SubSeq(WinGame, 25, 32))
WinAt36 == Replay(WinAt24, SubSeq(WinGame, 25, 36))
WinAt38 == Replay(WinAt36, SubSeq(WinGame, 37, 38))

(* a game of 39 drops that player 0 wins with the last one (column 4) *)
RandWinGame ==
    << 5, 5, 1, 5, 3, 1, 3, 3, 3, 6, 3, 4, 3, 0, 5, 2, 0, 6, 6, 5,
       2, 1, 6, 1, 5, 2, 1, 4, 6, 1, 0, 0, 2, 2, 2, 0, 0, 6, 4 >>

RandWinAt12 == Replay(DefaultState, SubSeq(RandWinGame, 1, 12))
RandWinAt24 == Replay(RandWinAt12, SubSeq(RandWinGame, 13, 24))
RandWinAt36 == Replay(RandWinAt24, SubSeq(RandWinGame, 25, 36))
RandWinAt38 == Replay(RandWinAt36, SubSeq(RandWinGame, 37, 38))

(* a game of 40 drops in which the drop of player 1 in column 4, after 39  *)
(* drops, completes a diagonal of player 1                                 *)
LossGame ==
    << 2, 0, 4, 4, 1, 3, 5, 2, 0, 0, 1, 4, 1, 0, 6, 1, 5, 0, 0, 6,
       3, 1, 2, 5, 3, 1, 5, 6, 6, 2, 5, 5, 2, 6, 3, 2, 6, 3, 3, 4 >>

LossAt12 == Replay(DefaultState, SubSeq(LossGame, 1, 12))
LossAt24 == Replay(LossAt12, SubSeq(LossGame, 13, 24))
LossAt36 == Replay(LossAt24, SubSeq(LossGame, 25, 36))
LossAt38 == Replay(LossAt36, SubSeq(LossGame, 37, 38))

(* 39 drops after which player 1 has columns 1 and 6 to choose from; the   *)
(* random games that follow column 6 are won by either player              *)
MixGame ==
    << 0, 2, 1, 0, 0, 1, 3, 4, 3, 4, 4, 4, 2, 5, 1, 2, 2, 3, 3, 3,
       4, 6, 3, 5, 4, 2, 5, 2, 5, 5, 6, 0, 0, 6, 0, 6, 1, 1, 5 >>

MixAt12 == Replay(DefaultState, SubSeq(MixGame, 1, 12))
MixAt24 == Replay(MixAt12, SubSeq(MixGame, 13, 24))
MixAt36 == Replay(MixAt24, SubSeq(MixGame, 25, 36))
MixAt39 == Replay(MixAt36, SubSeq(MixGame, 37, 39))

(* 37 drops after which player 1 has columns 1 and 5 to choose from; the   *)
(* random games that follow column 5 are won by player 1 or tied           *)
TieMixGame ==
    << 3, 0, 0, 0, 2, 0, 6, 4, 6, 2, 2, 0, 0, 4, 4, 4, 3, 4, 1, 6,
       6, 6, 1, 5, 2, 2, 6, 3, 5, 4, 2, 3, 5, 3, 3, 1, 1 >>

TieMixAt12 == Replay(DefaultState, SubSeq(TieMixGame, 1, 12))
TieMixAt24 == Replay(TieMixAt12, SubSeq(TieMixGame, 13, 24))
TieMixAt36 == Replay(TieMixAt24, SubSeq(TieMixGame, 25, 36))
TieMixAt37 == Replay(TieMixAt36, SubSeq(TieMixGame, 37, 37))

(* 39 drops after which player 1 has columns 1 and 2 to choose from; the   *)
(* random games that follow column 2 are won by player 0 or tied           *)
TieLossGame ==
    << 3, 4, 0, 4, 6, 5, 6, 0, 0, 6, 3, 0, 1, 1, 6, 2, 4, 2, 4, 4,
       4, 0, 2, 3, 2, 3, 3, 6, 5, 5, 0, 5, 5, 1, 3, 6, 5, 1, 1 >>

TieLossAt12 == Replay(DefaultState, SubSeq(TieLossGame, 1, 12))
TieLossAt24 == Replay(TieLossAt12, SubSeq(TieLossGame, 13, 24))
TieLossAt36 == Replay(TieLossAt24, SubSeq(TieLossGame, 25, 36))
TieLossAt39 == Replay(TieLossAt36, SubSeq(TieLossGame, 37, 39))

VARIABLES
    state,      \* the Connect4State a caller of the API holds
    call,       \* the last API call on state: its operation, argument and the state before it
    ret,        \* what that call returned
    moves,      \* successful apply_action calls since the starting position
    game,       \* the play call of main: its state, position in the loop and result
    mcts,       \* the mcts_agent call in progress, if any
    sim,        \* the play call of the simulation in progress, if any
    par         \* the simulations of one candidate run in parallel, and their sum

vars == << state, call, ret, moves, game, mcts, sim, par >>
apiVars == << state, call, ret, moves >>
playVars == << game, mcts, sim, par >>

NoCall == [op |-> "none", column |-> 0, before |-> DefaultState]
NoRet == [tag |-> "NoRet"]

(***************************************************************************)
(* A play call: the state it mutates, the two agents it was given, where   *)
(* it stands in the loop ("agent": the agent named by who is choosing,     *)
(* "apply": the agent returned action, "done": play returned result), the  *)
(* last column rand_agent drew, and the number of agent calls and of       *)
(* applied actions so far.                                                 *)
(***************************************************************************)
(* mutant: the agents are asked in the wrong turns *)
AgentSwapped(next_player) == IF next_player = 0 THEN "red" ELSE "blue"

(* if state.next_player == 0 { blue_agent(state) } else { red_agent(state) } *)
AgentForTurn(next_player) == IF next_player = 0 THEN "blue" ELSE "red"

Play(st, blue_agent, red_agent) ==
    [ pc |-> "agent", state |-> st, blue |-> blue_agent, red |-> red_agent,
      who |-> AgentForTurn(st.next_player), sample |-> None, action |-> None,
      status |-> NoRet, result |-> NoRet, asks |-> 1, applied |-> 0 ]

NoPlay ==
    [ pc |-> "idle", state |-> DefaultState, blue |-> "none", red |-> "none",
      who |-> "none", sample |-> None, action |-> None,
      status |-> NoRet, result |-> NoRet, asks |-> 0, applied |-> 0 ]

(* the agent the play call f is waiting for *)
Agent(f) == IF f.who = "blue" THEN f.blue ELSE f.red

(* mutant: the sampled column is returned without the legality test *)
rand_agent_unchecked(f, column) ==
    [f EXCEPT !.pc = "apply", !.action = Some(column), !.sample = None]

(* rand_agent: one turn of its loop, the sampler having drawn column *)
rand_agent(f, column) ==
    IF check_action(f.state, column)
    THEN [f EXCEPT !.pc = "apply", !.action = Some(column), !.sample = None]
    ELSE [f EXCEPT !.sample = Some(column)]

(* play, once apply_action returned r and check_state returned status:     *)
(* the ? on r, and the if let Over(result) on status                       *)
play_checked(f, r, status) ==
    IF r.ret.tag = "Err"
    THEN [f EXCEPT !.pc = "done", !.result = r.ret, !.action = None]
    ELSE IF status.tag = "Over"
    THEN [f EXCEPT !.pc = "done", !.state = r.state, !.action = None,
                   !.status = status, !.result = Ok(status.result),
                   !.applied = f.applied + 1]
    ELSE [f EXCEPT !.pc = "agent", !.state = r.state, !.action = None,
                   !.status = status, !.who = AgentForTurn(r.state.next_player),
                   !.applied = f.applied + 1, !.asks = f.asks + 1]

(* mutant: the error of apply_action is dropped and the loop goes on *)
play_apply_ignore(f) ==
    LET calls == { [r |-> r, status |-> check_state(r.state)] :
                     r \in { apply_action(f.state, f.action[1]) } }
    IN  CHOOSE g \in { IF c.r.ret.tag = "Err"
                       THEN [f EXCEPT !.pc = "agent", !.action = None,
                                      !.asks = f.asks + 1]
                       ELSE play_checked(f, c.r, c.status) : c \in calls } : TRUE

(* play: apply_action(state, &action)? and the check_state(state) that     *)
(* follows, each called once                                               *)
play_apply(f) ==
    LET calls == { [r |-> r, status |-> check_state(r.state)] :
                     r \in { apply_action(f.state, f.action[1]) } }
    IN  CHOOSE g \in { play_checked(f, c.r, c.status) : c \in calls } : TRUE

(***************************************************************************)
(* mcts_agent: the legal columns in order, the scores of those already     *)
(* evaluated, and for the one being evaluated its successor state, the     *)
(* number of simulations finished and the sum of their contributions.      *)
(* Each candidate and each simulation works on its own clone, so they are  *)
(* run one after another, in index order.                                  *)
(***************************************************************************)
K == 100

(* wins, losses, ties: the simulations of the current candidate that       *)
(* returned so far, by outcome; tallies: those counts for each scored      *)
(* candidate (kept for the properties, read by no step)                    *)
NoTally == [wins |-> 0, losses |-> 0, ties |-> 0]

Tally(t, result, player) ==
    IF result = Winner(player) THEN [t EXCEPT !.wins = t.wins + 1]
    ELSE IF result = Winner(1 - player) THEN [t EXCEPT !.losses = t.losses + 1]
    ELSE [t EXCEPT !.ties = t.ties + 1]

NoMcts ==
    [ pc |-> "idle", player |-> 0, candidates |-> << >>, scores |-> << >>,
      next_state |-> DefaultState, i |-> 0, sum |-> 0,
      tally |-> NoTally, tallies |-> << >> ]

(* mutant: the filter is missing *)
RECURSIVE LegalFromUnfiltered(_, _)
LegalFromUnfiltered(st, column) ==
    IF column >= COLS THEN << >>
    ELSE << column >> \o LegalFromUnfiltered(st, column + 1)

(* (0..COLS).filter(|action| check_action(state, action)), in order *)
RECURSIVE LegalFrom(_, _)
LegalFrom(st, column) ==
    IF column >= COLS THEN << >>
    ELSE IF check_action(st, column)
    THEN << column >> \o LegalFrom(st, column + 1)
    ELSE LegalFrom(st, column + 1)

LegalColumns(st) == LegalFrom(st, 0)

(* mutant: a win of the other player counts like a win of player *)
ContributionUnsigned(result, player) ==
    IF result.tag = "Winner" THEN 1 ELSE 0

(* the contribution of one simulation: play(..).unwrap() matched against player *)
Contribution(result, player) ==
    IF result.tag = "Winner"
    THEN IF result.player = player THEN 1 ELSE 0 - 1
    ELSE 0

(* sum::<i32>() as f32 / 100. : the quotient, kept as numerator and denominator *)
Score(sum) == [num |-> sum, den |-> 100]

(* score1.partial_cmp(score2) *)
Greater(score1, score2) == score1.num * score2.den > score2.num * score1.den

(* mutant: the smaller score is kept (min_by) *)
MaxOpLess(scores, a, b) == IF Greater(scores[b], scores[a]) THEN a ELSE b

(* mutant: the left operand is kept on equal scores *)
MaxOpKeepLeft(scores, a, b) == IF Greater(scores[b], scores[a]) THEN b ELSE a

(* the operation max_by reduces with, on the candidates at indices a < b:  *)
(* match cmp(&a, &b) { Greater => a, _ => b }                              *)
MaxOp(scores, a, b) == IF Greater(scores[a], scores[b]) THEN a ELSE b

(* the results of the parallel reduction of candidates lo .. hi: the range *)
(* is split at any point, each part reduced, and the two results combined  *)
(* with the left part as left operand                                      *)
RECURSIVE MaxByTree(_, _, _)
MaxByTree(scores, lo, hi) ==
    IF lo = hi THEN {lo}
    ELSE UNION { { MaxOp(scores, a, b) :
                     a \in MaxByTree(scores, lo, mid),
                     b \in MaxByTree(scores, mid + 1, hi) } :
                 mid \in lo .. (hi - 1) }

(* max_by over the candidates in index order: rayon reduces with           *)
(* |a, b| match cmp(&a, &b) { Greater => a, _ => b }, so the left operand  *)
(* is kept only when it compares Greater                                   *)
RECURSIVE MaxBy(_, _)
MaxBy(scores, n) ==
    IF n = 1 THEN 1
    ELSE MaxOp(scores, MaxBy(scores, n - 1), n)

(***************************************************************************)
(* The simulations of one candidate as the parallel iterator runs them:    *)
(* each simulation has its own play call on its own clone of next_state,   *)
(* the calls advance in any interleaving, and the contributions of those   *)
(* that returned are added up in parts that are merged in any order.       *)
(***************************************************************************)
(* simulations of one candidate that the model follows *)
MaxSims == 3
(* worker threads of the pool: simulations in progress at the same time *)
Workers == 2

NoPar ==
    [ pc |-> "idle", player |-> 0, next_state |-> DefaultState,
      frames |-> << >>, parts |-> {}, score |-> Score(0) ]

(* mutant: merging two parts keeps the left one only *)
SumOpLeft(a, b) == a

(* i32 addition, as sum::<i32>() merges two partial sums; a partial sum of *)
(* contributions is between -K and K, far from the ends of i32             *)
SumOp(a, b) == a + b

Init ==
    /\ state \in SeedStates
    /\ call = NoCall
    /\ ret = NoRet
    /\ moves = 0
    /\ game = NoPlay
    /\ mcts = NoMcts
    /\ sim = NoPlay
    /\ par = NoPar

(* a caller invokes apply_action(&mut state, &Connect4Action { column }) *)
ApplyAction(column) ==
    LET r == apply_action(state, column)
    IN  /\ r.ret.tag = "Ok" => moves < MaxMoves
        /\ state' = r.state
        /\ call' = [op |-> "apply_action", column |-> column, before |-> state]
        /\ ret' = r.ret
        /\ moves' = IF r.ret.tag = "Ok" THEN moves + 1 ELSE moves
        /\ UNCHANGED playVars

(* a caller invokes check_action(&state, &Connect4Action { column }) *)
CheckAction(column) ==
    /\ call' = [op |-> "check_action", column |-> column, before |-> state]
    /\ ret' = [tag |-> "Bool", value |-> check_action(state, column)]
    /\ UNCHANGED << state, moves >>
    /\ UNCHANGED playVars

Next ==
    \/ \E column \in 0 .. MaxColumn : ApplyAction(column)
    \/ \E column \in 0 .. MaxColumn : CheckAction(column)

Spec == Init /\ [][Next]_vars

(***************************************************************************)
(* check_state as a function of the board: one call on each input board.   *)
(* The inputs hold, for every line of four cells of the grid and each      *)
(* player, the line owned by that player, and the line with one cell given *)
(* to the opponent; the cells beneath the line are filled with a pattern   *)
(* that has no four-in-a-row of its own.                                   *)
(***************************************************************************)
GridLines ==
    { [k \in 1 .. 4 |-> (t[1] + (k - 1) * t[3]) * ROWS + (t[2] + (k - 1) * t[4])] :
        t \in { u \in Columns \X (0 .. (ROWS - 1)) \X {0, 1} \X {0 - 1, 0, 1} :
                  /\ u[3] # 0 \/ u[4] = 1
                  /\ u[1] + 3 * u[3] \in Columns
                  /\ u[2] + 3 * u[4] \in 0 .. (ROWS - 1) } }

Filler(i) == Some(((i \div ROWS) + ((i % ROWS) \div 2)) % 2)

LineBoard(l, p, miss) ==
    [i \in Cells |->
        IF \E k \in 1 .. 4 : l[k] = i
        THEN IF miss >= 1 /\ l[miss] = i THEN Some(1 - p) ELSE Some(p)
        ELSE IF \E k \in 1 .. 4 : l[k] \div ROWS = i \div ROWS /\ i < l[k]
        THEN Filler(i)
        ELSE None]

(* player 0 drops four times in column 3, player 1 replies in column 0 *)
VerticalScenario == Replay(DefaultState, << 3, 0, 3, 0, 3, 0, 3 >>).board

(* (col0,row0)=0, (col1,row0)=0, (col2,row0)=0, (col3,row0)=1 *)
NearMissBoard ==
    [i \in Cells |->
        IF i \in {0 * ROWS, 1 * ROWS, 2 * ROWS} THEN Some(0)
        ELSE IF i = 3 * ROWS THEN Some(1)
        ELSE None]

CheckInputs ==
    { LineBoard(l, p, miss) : << l, p, miss >> \in GridLines \X {0, 1} \X (0 .. 4) }
    \cup { VerticalScenario, NearMissBoard }
    \cup { s.board : s \in SeedStates }

InitCheck ==
    /\ state \in [board : CheckInputs, next_player : {0, 1}]
    /\ call = NoCall
    /\ ret = NoRet
    /\ moves = 0
    /\ game = NoPlay
    /\ mcts = NoMcts
    /\ sim = NoPlay
    /\ par = NoPar

(* a caller invokes check_state(&state) *)
CheckState ==
    /\ call.op = "none"
    /\ call' = [op |-> "check_state", column |-> 0, before |-> state]
    /\ ret' = check_state(state)
    /\ UNCHANGED << state, moves >>
    /\ UNCHANGED playVars

NextCheck == CheckState

SpecCheck == InitCheck /\ [][NextCheck]_vars

(***************************************************************************)
(* main: play(&mut state, rand_agent, mcts_agent).  The game starts from a *)
(* position the driver reaches from the empty board.                       *)
(***************************************************************************)
PlayStarts == { DrawAt38, DrawAt40, WinAt38, RandWinAt38 }

InitPlay ==
    /\ state \in PlayStarts
    /\ call = NoCall
    /\ ret = NoRet
    /\ moves = 0
    /\ game = Play(state, "rand_agent", "mcts_agent")
    /\ mcts = NoMcts
    /\ sim = NoPlay
    /\ par = NoPar

(* rand_agent, called by the game, draws a column *)
GameRand(column) ==
    /\ game.pc = "agent"
    /\ Agent(game) = "rand_agent"
    /\ game' = rand_agent(game, column)
    /\ UNCHANGED << apiVars, par, mcts, sim >>

(* the game applies the action its agent returned *)
GameApply ==
    /\ game.pc = "apply"
    /\ game' = play_apply(game)
    /\ UNCHANGED << apiVars, par, mcts, sim >>

(* mcts_agent is called by the game: player and the legal columns *)
MctsEnter ==
    /\ game.pc = "agent"
    /\ Agent(game) = "mcts_agent"
    /\ mcts.pc = "idle"
    /\ mcts' = [NoMcts EXCEPT !.pc = "candidate",
                               !.player = game.state.next_player,
                               !.candidates = LegalColumns(game.state)]
    /\ UNCHANGED << apiVars, par, game, sim >>

(* the next legal column: next_state = state.clone(); apply_action(..).unwrap() *)
MctsCandidate ==
    /\ mcts.pc = "candidate"
    /\ Len(mcts.scores) < Len(mcts.candidates)
    /\ LET column == mcts.candidates[Len(mcts.scores) + 1]
           r == apply_action(game.state, column)
       IN  mcts' = IF r.ret.tag = "Err"
                   THEN [mcts EXCEPT !.pc = "panic"]
                   ELSE [mcts EXCEPT !.pc = "simulate", !.next_state = r.state,
                                     !.i = 0, !.sum = 0, !.tally = NoTally]
    /\ UNCHANGED << apiVars, par, game, sim >>

(* simulation i: play(&mut next_state.clone(), rand_agent, rand_agent) *)
SimStart ==
    /\ mcts.pc = "simulate"
    /\ sim.pc = "idle"
    /\ mcts.i < K
    /\ sim' = Play(mcts.next_state, "rand_agent", "rand_agent")
    /\ UNCHANGED << apiVars, par, game, mcts >>

(* rand_agent, called by the simulation, draws a column *)
SimRand(column) ==
    /\ sim.pc = "agent"
    /\ Agent(sim) = "rand_agent"
    /\ sim' = rand_agent(sim, column)
    /\ UNCHANGED << apiVars, par, game, mcts >>

(* the simulation applies the action its agent returned *)
SimApply ==
    /\ sim.pc = "apply"
    /\ sim' = play_apply(sim)
    /\ UNCHANGED << apiVars, par, game, mcts >>

(* the simulation returned: unwrap, add its contribution; after the K-th, the score *)
SimJoin ==
    /\ mcts.pc = "simulate"
    /\ sim.pc = "done"
    /\ sim' = NoPlay
    /\ mcts' =
         IF sim.result.tag = "Err"
         THEN [mcts EXCEPT !.pc = "panic"]
         ELSE LET sum == mcts.sum + Contribution(sim.result.value, mcts.player)
                  tally == Tally(mcts.tally, sim.result.value, mcts.player)
              IN  IF mcts.i + 1 < K
                  THEN [mcts EXCEPT !.i = mcts.i + 1, !.sum = sum, !.tally = tally]
                  ELSE [mcts EXCEPT !.pc = "candidate", !.i = 0, !.sum = 0,
                                    !.scores = Append(mcts.scores, Score(sum)),
                                    !.tally = NoTally,
                                    !.tallies = Append(mcts.tallies, tally)]
    /\ UNCHANGED << apiVars, par, game >>

(* every candidate has its score: max_by(..).map(|(action, _)| action).unwrap(); *)
(* the scores stay in mcts until the next call                             *)
MctsReturn ==
    /\ mcts.pc = "candidate"
    /\ Len(mcts.scores) = Len(mcts.candidates)
    /\ IF mcts.candidates = << >>
       THEN /\ mcts' = [mcts EXCEPT !.pc = "panic"]
            /\ UNCHANGED game
       ELSE /\ mcts' = [mcts EXCEPT !.pc = "idle"]
            /\ \E best \in MaxByTree(mcts.scores, 1, Len(mcts.scores)) :
                  game' = [game EXCEPT !.pc = "apply",
                                       !.action = Some(mcts.candidates[best])]
    /\ UNCHANGED << apiVars, par, sim >>

NextPlay ==
    \/ \E column \in Columns : GameRand(column)
    \/ GameApply
    \/ MctsEnter
    \/ MctsCandidate
    \/ SimStart
    \/ \E column \in Columns : SimRand(column)
    \/ SimApply
    \/ SimJoin
    \/ MctsReturn

SpecPlay == InitPlay /\ [][NextPlay]_vars

(***************************************************************************)
(* The same game under fair scheduling: every step of the program that can *)
(* be taken is eventually taken, and the sampler of rand_agent produces    *)
(* every column again and again.                                           *)
(***************************************************************************)
FairPlay ==
    /\ WF_vars(GameApply)
    /\ WF_vars(MctsEnter)
    /\ WF_vars(MctsCandidate)
    /\ WF_vars(SimStart)
    /\ WF_vars(SimApply)
    /\ WF_vars(SimJoin)
    /\ WF_vars(MctsReturn)
    /\ \A column \in Columns : SF_vars(GameRand(column))
    /\ \A column \in Columns : SF_vars(SimRand(column))

SpecPlayFair == InitPlay /\ [][NextPlay]_vars /\ FairPlay

(***************************************************************************)
(* The game of main from positions in which mcts_agent has several columns *)
(* to choose from, with equal and with different scores.                   *)
(***************************************************************************)
MctsStarts == { WinAt38, LossAt38, MixAt39, TieMixAt37 }

InitMcts ==
    /\ state \in MctsStarts
    /\ call = NoCall
    /\ ret = NoRet
    /\ moves = 0
    /\ game = Play(state, "rand_agent", "mcts_agent")
    /\ mcts = NoMcts
    /\ sim = NoPlay
    /\ par = NoPar

SpecMcts == InitMcts /\ [][NextPlay]_vars

(***************************************************************************)
(* mcts_agent scoring one candidate column of a state the game reaches:    *)
(* MaxSims simulations of the K are followed, Workers of them at a time.   *)
(***************************************************************************)
ScoreStarts == { MixAt39, TieLossAt39 }

InitScore ==
    /\ state \in ScoreStarts
    /\ call = NoCall
    /\ ret = NoRet
    /\ moves = 0
    /\ game = NoPlay
    /\ mcts = NoMcts
    /\ sim = NoPlay
    /\ \E k \in 1 .. Len(LegalColumns(state)) :
          par = [ pc |-> "sum", player |-> state.next_player,
                  next_state |-> apply_action(state, LegalColumns(state)[k]).state,
                  frames |-> [i \in 1 .. MaxSims |-> NoPlay],
                  parts |-> {}, score |-> Score(0) ]

(* simulation i begins: let mut state = next_state.clone(); play(&mut state, ..) *)
ParStart(i) ==
    /\ par.pc = "sum"
    /\ par.frames[i].pc = "idle"
    /\ Cardinality({ j \in 1 .. MaxSims :
                       par.frames[j].pc \in {"agent", "apply", "done"} }) < Workers
    /\ par' = [par EXCEPT !.frames[i] = Play(par.next_state, "rand_agent", "rand_agent")]
    /\ UNCHANGED << apiVars, game, mcts, sim >>

(* rand_agent, called by simulation i, draws a column *)
ParRand(i, column) ==
    /\ par.pc = "sum"
    /\ par.frames[i].pc = "agent"
    /\ par' = [par EXCEPT !.frames[i] = rand_agent(par.frames[i], column)]
    /\ UNCHANGED << apiVars, game, mcts, sim >>

(* simulation i applies the action its agent returned *)
ParApply(i) ==
    /\ par.pc = "sum"
    /\ par.frames[i].pc = "apply"
    /\ par' = [par EXCEPT !.frames[i] = play_apply(par.frames[i])]
    /\ UNCHANGED << apiVars, game, mcts, sim >>

(* simulation i returned: unwrap, its contribution becomes a part of the   *)
(* sum, and its clone is dropped                                           *)
ParJoin(i) ==
    /\ par.pc = "sum"
    /\ par.frames[i].pc = "done"
    /\ par' =
         IF par.frames[i].result.tag = "Err"
         THEN [par EXCEPT !.pc = "panic"]
         ELSE [par EXCEPT
                 !.frames[i] = [NoPlay EXCEPT !.pc = "joined",
                                              !.result = par.frames[i].result],
                 !.parts = par.parts \cup
                   { [ids |-> {i},
                      sum |-> Contribution(par.frames[i].result.value, par.player)] }]
    /\ UNCHANGED << apiVars, game, mcts, sim >>

(* two parts of the sum are merged *)
ParSum(a, b) ==
    /\ par.pc = "sum"
    /\ a \in par.parts
    /\ b \in par.parts
    /\ a # b
    /\ par' = [par EXCEPT !.parts = (par.parts \ {a, b}) \cup
                 { [ids |-> a.ids \cup b.ids, sum |-> SumOp(a.sum, b.sum)] }]
    /\ UNCHANGED << apiVars, game, mcts, sim >>

(* one part holds every simulation: sum as f32 / 100. *)
ParScore ==
    /\ par.pc = "sum"
    /\ \E part \in par.parts :
          /\ part.ids = 1 .. MaxSims
          /\ par' = [par EXCEPT !.pc = "scored", !.score = Score(part.sum)]
    /\ UNCHANGED << apiVars, game, mcts, sim >>

NextScore ==
    \/ \E i \in 1 .. MaxSims : ParStart(i)
    \/ \E i \in 1 .. MaxSims : \E column \in Columns : ParRand(i, column)
    \/ \E i \in 1 .. MaxSims : ParApply(i)
    \/ \E i \in 1 .. MaxSims : ParJoin(i)
    \/ \E a, b \in par.parts : ParSum(a, b)
    \/ ParScore

SpecScore == InitScore /\ [][NextScore]_vars

(***************************************************************************)
(* play called with agents that may return any column, legal or not.       *)
(***************************************************************************)
FaultyStarts == { DrawAt30, WinAt32, LossAt36 }

InitFaulty ==
    /\ state \in FaultyStarts
    /\ call = NoCall
    /\ ret = NoRet
    /\ moves = 0
    /\ game = Play(state, "any_agent", "any_agent")
    /\ mcts = NoMcts
    /\ sim = NoPlay
    /\ par = NoPar

(* the agent of the game returns column, whatever the state *)
GameAny(column) ==
    /\ game.pc = "agent"
    /\ Agent(game) = "any_agent"
    /\ game' = [game EXCEPT !.pc = "apply", !.action = Some(column)]
    /\ UNCHANGED << apiVars, par, mcts, sim >>

NextFaulty ==
    \/ \E column \in 0 .. MaxColumn : GameAny(column)
    \/ GameApply

SpecFaulty == InitFaulty /\ [][NextFaulty]_vars

(***************************************************************************)
(* play(&mut state, rand_agent, rand_agent): a game between two random     *)
(* agents, from positions such a game reaches from the empty board, under  *)
(* fair sampling.                                                          *)
(***************************************************************************)
RandStarts == { DrawAt30, WinAt32, RandWinAt36 }

InitRand ==
    /\ state \in RandStarts
    /\ call = NoCall
    /\ ret = NoRet
    /\ moves = 0
    /\ game = Play(state, "rand_agent", "rand_agent")
    /\ mcts = NoMcts
    /\ sim = NoPlay
    /\ par = NoPar

NextRand ==
    \/ \E column \in Columns : GameRand(column)
    \/ GameApply

FairRand ==
    /\ WF_vars(GameApply)
    /\ \A column \in Columns : SF_vars(GameRand(column))

SpecRand == InitRand /\ [][NextRand]_vars /\ FairRand

(***************************************************************************)
(* Vocabulary of the properties: the grid geometry, stated independently   *)
(* of the scan of check_state.                                             *)
(***************************************************************************)
Rows == 0 .. (ROWS - 1)
Players == {0, 1}
Directions == { << 0, 1 >>, << 1, 0 >>, << 1, 1 >>, << 1, 0 - 1 >> }

(* the four cells of the line starting at (c, r) in direction d *)
Line(c, r, d) == [k \in 1 .. 4 |-> (c + (k - 1) * d[1]) * ROWS + (r + (k - 1) * d[2])]

Lines ==
    { Line(c, r, d) : << c, r, d >> \in
        { t \in Columns \X Rows \X Directions :
            /\ t[1] + 3 * t[3][1] \in Columns
            /\ t[2] + 3 * t[3][2] \in Rows } }

Owns(p, board) == \E l \in Lines : \A k \in 1 .. 4 : board[l[k]] = Some(p)
HasFour(board) == \E p \in Players : Owns(p, board)
Full(board) == \A i \in Cells : board[i] # None
Height(board, c) == Cardinality({r \in Rows : board[c * ROWS + r] # None})

Pieces(board) == Cardinality({i \in Cells : board[i] # None})
Outcomes == { Ok(Winner(0)), Ok(Winner(1)), Ok(Tie) }

HasRoom(st, c) == c \in Columns /\ Height(st.board, c) < ROWS

(* mcts_agent has returned game.action to the game; its scores are in mcts *)
Returned == mcts.pc = "idle" /\ game.pc = "apply" /\ Agent(game) = "mcts_agent"
AtLeast(score1, score2) == score1.num * score2.den >= score2.num * score1.den
Maxima(scores) ==
    { k \in 1 .. Len(scores) : \A j \in 1 .. Len(scores) : AtLeast(scores[k], scores[j]) }
FirstMaximum(scores) == CHOOSE k \in Maxima(scores) : \A j \in Maxima(scores) : k <= j
LastMaximum(scores) == CHOOSE k \in Maxima(scores) : \A j \in Maxima(scores) : k >= j

(* the contributions of the simulations in ids, added in index order up to k *)
RECURSIVE IndexSum(_, _)
IndexSum(ids, k) ==
    IF k = 0 THEN 0
    ELSE IndexSum(ids, k - 1) +
         (IF k \in ids THEN Contribution(par.frames[k].result.value, par.player) ELSE 0)

Applied == call.op = "apply_action"
Succeeded == Applied /\ ret.tag = "Ok"
Failed == Applied /\ ret.tag = "Err"

(***************************************************************************)
(* C1: a successful apply_action(state, c) changes exactly one cell, the   *)
(* lowest empty row of column c, to the player who was to move; every      *)
(* other cell is unchanged, next_player becomes the other player and the   *)
(* returned status is check_state of the resulting state.                  *)
(***************************************************************************)
C1_ApplyPlacesOnePiece ==
    Succeeded =>
        LET c == call.column
            b == call.before
        IN  /\ c \in Columns
            /\ \E row \in Rows :
                  /\ b.board[c * ROWS + row] = None
                  /\ \A r \in 0 .. (row - 1) : b.board[c * ROWS + r] # None
                  /\ state.board[c * ROWS + row] = Some(b.next_player)
                  /\ \A i \in Cells \ {c * ROWS + row} : state.board[i] = b.board[i]
            /\ state.next_player \in Players \ {b.next_player}
            /\ ret = Ok(check_state(state))

(* a drop that lands on top of other pieces and ends the game *)
C1_Witness ==
    /\ Succeeded
    /\ Height(call.before.board, call.column) >= 3
    /\ ret.value.tag = "Over"

(***************************************************************************)
(* C2: after any sequence of apply_action calls, successful or failing, no *)
(* occupied cell has an empty cell beneath it in its column.               *)
(***************************************************************************)
C2_BottomUpPrefix ==
    \A c \in Columns : \A r \in 1 .. (ROWS - 1) :
        state.board[c * ROWS + r] # None => state.board[c * ROWS + r - 1] # None

(* a failing call on a board with a partly filled column that was just dropped into *)
C2_Witness ==
    /\ Failed
    /\ moves >= 2
    /\ \E c \in Columns : Height(state.board, c) \in 2 .. (ROWS - 1)

(***************************************************************************)
(* C3: on a board where at most one player owns a line of four cells,      *)
(* check_state returns Over(Winner(p)) exactly when p owns some vertical,  *)
(* horizontal or diagonal line of four; the scan reads every such line and *)
(* never an index outside the board; the vertical scenario gives           *)
(* Over(Winner(0)) and the horizontal near-miss gives InProgress.          *)
(***************************************************************************)
C3_WinnerIffOwnsLine ==
    /\ \A l \in Lines : \E n \in 1 .. Len(ScanWindows) : ScanWindows[n] = l
    /\ call.op = "check_state" =>
          /\ ret # Panic
          /\ ~(Owns(0, state.board) /\ Owns(1, state.board)) =>
                \A p \in Players : ret = Over(Winner(p)) <=> Owns(p, state.board)
          /\ state.board = VerticalScenario => ret = Over(Winner(0))
          /\ state.board = NearMissBoard => ret = InProgress

(* player 1 alone owns a line that descends to the right, and is declared the winner *)
C3_Witness ==
    /\ call.op = "check_state"
    /\ ~Owns(0, state.board)
    /\ \E l \in Lines :
          /\ l[2] - l[1] = ROWS - 1
          /\ \A k \in 1 .. 4 : state.board[l[k]] = Some(1)
    /\ ret = Over(Winner(1))

(***************************************************************************)
(* C4: a full board without four-in-a-row evaluates to Over(Tie); a state  *)
(* that evaluates to InProgress has a column whose top cell is empty; and  *)
(* Over(Tie) is returned only for a full board without four-in-a-row.      *)
(***************************************************************************)
C4_TieIffFullWithoutFour ==
    /\ (Full(state.board) /\ ~HasFour(state.board)) => check_state(state) = Over(Tie)
    /\ check_state(state) = InProgress =>
          \E c \in Columns : state.board[c * ROWS + ROWS - 1] = None
    /\ check_state(state) = Over(Tie) => (Full(state.board) /\ ~HasFour(state.board))
    /\ Succeeded => (ret.value = Over(Tie) <=> (Full(state.board) /\ ~HasFour(state.board)))

(* the last drop of a drawn game *)
C4_Witness ==
    /\ Succeeded
    /\ Full(state.board)
    /\ ~HasFour(state.board)
    /\ ret = Ok(Over(Tie))

(***************************************************************************)
(* C5: apply_action on an in-range column whose top cell is occupied fails *)
(* with FullColumn and leaves board and next_player as they were; the same *)
(* call repeated gives the same error and the same state.                  *)
(***************************************************************************)
C5_FullColumnFails ==
    (/\ Applied
     /\ call.column \in Columns
     /\ call.before.board[call.column * ROWS + ROWS - 1] # None)
    => /\ ret = Err(FullColumn(call.column))
       /\ state = call.before
       /\ apply_action(state, call.column) = [state |-> state, ret |-> ret]

(* a drop into a column that is full while another column still has room *)
C5_Witness ==
    /\ Applied
    /\ call.column \in Columns
    /\ call.before.board[call.column * ROWS + ROWS - 1] # None
    /\ \E c \in Columns : Height(state.board, c) < ROWS

(***************************************************************************)
(* C6: apply_action with a column index outside 0 .. COLS-1 fails with     *)
(* UnknownColumn whatever the board holds, and changes nothing.            *)
(***************************************************************************)
C6_UnknownColumnFails ==
    (Applied /\ call.column \notin Columns)
    => /\ ret = Err(UnknownColumn(call.column))
       /\ state = call.before

(* an out-of-range drop on a board that holds pieces of both players *)
C6_Witness ==
    /\ Applied
    /\ call.column >= COLS
    /\ \E i, j \in Cells : state.board[i] = Some(0) /\ state.board[j] = Some(1)

(***************************************************************************)
(* C7: next_player stays in {0, 1}; a successful apply_action flips it and *)
(* a failing one leaves it.                                                *)
(***************************************************************************)
C7_TurnAlternates ==
    /\ state.next_player \in Players
    /\ Succeeded => state.next_player = 1 - call.before.next_player
    /\ Failed => state.next_player = call.before.next_player

(* a failing call between successful ones, with player 1 to move *)
C7_Witness ==
    /\ Failed
    /\ moves >= 1
    /\ state.next_player = 1

(* what a play call f owes its caller, at every point of its loop *)
PlayContract(f) ==
    /\ f.pc = "agent" =>
          /\ f.who = "blue" <=> f.state.next_player = 0
          /\ f.who = "red" <=> f.state.next_player = 1
    /\ f.pc \in {"agent", "apply"} =>
          /\ f.asks = f.applied + 1
          /\ f.status.tag # "Over"
    /\ f.status.tag = "Over" => f.pc = "done"
    /\ (f.pc = "done" /\ f.result.tag = "Ok") =>
          /\ f.asks = f.applied
          /\ f.status = Over(f.result.value)
          /\ check_state(f.state) = Over(f.result.value)

(***************************************************************************)
(* C8: play asks the first agent exactly when next_player is 0 and the     *)
(* second exactly when it is 1, applies one action per agent call, returns *)
(* as soon as the status after an applied move is Over, and returns the    *)
(* check_state outcome of the final state; this holds of the play call of  *)
(* main and of the play call of every simulation.                          *)
(***************************************************************************)
C8_PlayLoop == PlayContract(game) /\ PlayContract(sim)

(* the game returned Winner(1) after rand_agent and mcts_agent had each moved *)
C8_Witness ==
    /\ game.pc = "done"
    /\ game.result = Ok(Winner(1))
    /\ game.applied >= 2

(***************************************************************************)
(* C9: the state handed to an agent evaluates to InProgress, in the game   *)
(* and in the play calls mcts_agent starts on successor states.            *)
(***************************************************************************)
C9_AgentNeverOnTerminal ==
    /\ game.pc = "agent" => check_state(game.state) = InProgress
    /\ sim.pc = "agent" => check_state(sim.state) = InProgress

(***************************************************************************)
(* C10: under fair sampling every simulation reaches a terminal state and  *)
(* every call of mcts_agent returns.                                       *)
(***************************************************************************)
C10_MctsReturns ==
    /\ (sim.pc = "agent") ~> (sim.pc = "done")
    /\ (mcts.pc # "idle") ~> (mcts.pc = "idle")

(***************************************************************************)
(* C11: a game between two random agents, started by play on a position    *)
(* such a game reaches from the empty board, asks rand_agent only on       *)
(* states that evaluate to InProgress and have a column with room, returns *)
(* under fair sampling, and returns Ok(Winner(p)) or Ok(Tie) with one      *)
(* piece on the board for each applied move, at most ROWS * COLS in all.   *)
(***************************************************************************)
C11_RandomGameTerminates ==
    /\ [](game.pc = "agent" =>
            /\ check_state(game.state) = InProgress
            /\ \E c \in Columns : Height(game.state.board, c) < ROWS)
    /\ [](game.pc = "done" =>
            /\ game.result \in Outcomes
            /\ Pieces(game.state.board) = Pieces(state.board) + game.applied
            /\ Pieces(game.state.board) <= ROWS * COLS)
    /\ <>(game.pc = "done")

(* the game filled the board, rand_agent having drawn a full column on the way *)
C11_Witness ==
    /\ game.pc = "done"
    /\ game.result = Ok(Tie)
    /\ Pieces(game.state.board) = ROWS * COLS
    /\ game.applied >= 12

(***************************************************************************)
(* C12: the column rand_agent or mcts_agent returns is in range and has    *)
(* room in the state the agent was called on, in the game and in every     *)
(* simulation; every candidate mcts_agent evaluates has room, so its       *)
(* unwrap of apply_action does not panic; and no play call returns an      *)
(* ActionError.                                                            *)
(***************************************************************************)
C12_AgentsReturnLegalColumns ==
    /\ game.pc = "apply" => HasRoom(game.state, game.action[1])
    /\ sim.pc = "apply" => HasRoom(sim.state, sim.action[1])
    /\ mcts.pc # "panic"
    /\ mcts.pc \in {"candidate", "simulate"} =>
          \A k \in 1 .. Len(mcts.candidates) : HasRoom(game.state, mcts.candidates[k])
    /\ game.pc = "done" => game.result.tag = "Ok"
    /\ sim.pc = "done" => sim.result.tag = "Ok"

(* mcts_agent returned one of several columns with room while another column was full *)
C12_Witness ==
    /\ game.pc = "apply"
    /\ Agent(game) = "mcts_agent"
    /\ Len(LegalColumns(game.state)) >= 2
    /\ \E c \in Columns : Height(game.state.board, c) = ROWS
    /\ HasRoom(game.state, game.action[1])

(***************************************************************************)
(* C13: the column mcts_agent returns is one of its candidates, and the    *)
(* score of that candidate is greater than or equal to the score of every  *)
(* candidate of the call, however the reduction of max_by is split.        *)
(***************************************************************************)
C13_ReturnedColumnIsBest ==
    Returned =>
        \E k \in 1 .. Len(mcts.candidates) :
            /\ mcts.candidates[k] = game.action[1]
            /\ \A j \in 1 .. Len(mcts.scores) : AtLeast(mcts.scores[k], mcts.scores[j])

(* the returned column won some but not all of its simulations and beat another column *)
C13_Witness ==
    /\ Returned
    /\ \E k, j \in 1 .. Len(mcts.candidates) :
          /\ mcts.candidates[k] = game.action[1]
          /\ mcts.scores[k].num \notin {0 - 100, 0, 100}
          /\ mcts.scores[j].num < mcts.scores[k].num

(***************************************************************************)
(* C14 as claimed: among the candidates with the maximum score,            *)
(* mcts_agent returns the first in enumeration order.                      *)
(***************************************************************************)
C14_ReturnsFirstMaximum ==
    Returned => game.action[1] = mcts.candidates[FirstMaximum(mcts.scores)]

(***************************************************************************)
(* C14 as amended: among the candidates with the maximum score,            *)
(* mcts_agent returns the last in enumeration order (the highest column    *)
(* index), and every split of the reduction gives that same candidate.     *)
(***************************************************************************)
C14_ReturnsLastMaximum ==
    /\ Returned => game.action[1] = mcts.candidates[LastMaximum(mcts.scores)]
    /\ (/\ mcts.pc = "candidate"
        /\ mcts.scores # << >>
        /\ Len(mcts.scores) = Len(mcts.candidates))
       => MaxByTree(mcts.scores, 1, Len(mcts.scores)) = { LastMaximum(mcts.scores) }

(* three columns share the maximum score and the third is returned *)
C14_Witness ==
    /\ Returned
    /\ Cardinality(Maxima(mcts.scores)) = 3
    /\ game.action[1] = mcts.candidates[3]

(* a step of simulation i changes its own play call, as play on that call  *)
(* alone does, and nothing of another simulation, of next_state or the sum *)
C15_OwnState ==
    \A i \in 1 .. MaxSims :
        (par.frames[i].pc \in {"agent", "apply"} /\ par'.frames[i] # par.frames[i]) =>
            /\ \A j \in (1 .. MaxSims) \ {i} : par'.frames[j] = par.frames[j]
            /\ par'.next_state = par.next_state
            /\ par'.parts = par.parts
            /\ \/ par.frames[i].pc = "apply" /\ par'.frames[i] = play_apply(par.frames[i])
               \/ \E column \in Columns :
                     par.frames[i].pc = "agent"
                     /\ par'.frames[i] = rand_agent(par.frames[i], column)

(* every partial sum is the sum of the contributions it covers *)
C15_PartialSums ==
    /\ \A part \in par.parts :
          /\ \A i \in part.ids : par.frames[i].pc = "joined"
          /\ part.sum = IndexSum(part.ids, MaxSims)
    /\ \A p1, p2 \in par.parts : (p1 # p2) => (p1.ids \cap p2.ids = {})
    /\ par.pc = "scored" => par.score = Score(IndexSum(1 .. MaxSims, MaxSims))

(* the state of a simulation is next_state and the moves of that simulation *)
C15_OwnCopy ==
    \A i \in 1 .. Len(par.frames) :
        par.frames[i].pc \in {"agent", "apply", "done"} =>
            /\ \A c \in Cells :
                  par.next_state.board[c] # None =>
                      par.frames[i].state.board[c] = par.next_state.board[c]
            /\ Pieces(par.frames[i].state.board) =
                  Pieces(par.next_state.board) + par.frames[i].applied

(***************************************************************************)
(* C15: whatever the order in which the simulations of a candidate return  *)
(* and their contributions are merged, every partial sum is the sum of the *)
(* contributions of the simulations it covers, each counted once, and the  *)
(* score is the sum of all of them over 100; every simulation works on its *)
(* own copy of next_state, which extends next_state by its own moves only. *)
(***************************************************************************)
C15_SumIsOrderIndependent == [](C15_PartialSums /\ C15_OwnCopy) /\ [][C15_OwnState]_vars

(* the score of simulations that did not all end the same way *)
C15_Witness ==
    /\ par.pc = "scored"
    /\ \E i, j \in 1 .. MaxSims : par.frames[i].result # par.frames[j].result
    /\ par.frames[1].result # par.frames[MaxSims].result

(* the step of play on an action that is out of range or names a full column *)
C16_ErrorStep ==
    (game.pc = "apply" /\ ~HasRoom(game.state, game.action[1])) =>
        LET c == game.action[1]
        IN  /\ game'.pc = "done"
            /\ game'.result = Err(IF c \in Columns THEN FullColumn(c) ELSE UnknownColumn(c))
            /\ game'.state = game.state
            /\ game'.who = game.who
            /\ game'.asks = game.asks
            /\ game'.applied = game.applied

(* a play call that returned an error: its last agent call was not applied *)
C16_ErrorReturned ==
    (game.pc = "done" /\ game.result.tag = "Err") =>
        /\ game.asks = game.applied + 1
        /\ Pieces(game.state.board) = Pieces(state.board) + game.applied
        /\ game.state.next_player = (state.next_player + game.applied) % 2

(***************************************************************************)
(* C16: when an agent returns a column that is out of range or full, play  *)
(* returns the ActionError of apply_action for that column at once: the    *)
(* state is as it was before the action, the turn is still that of the     *)
(* agent that returned it, and no agent is called again.                   *)
(***************************************************************************)
C16_IllegalActionStopsPlay ==
    /\ [][C16_ErrorStep]_vars
    /\ [](C16_ErrorReturned)
    /\ [][game.pc = "done" => game' = game]_vars

(* play returned FullColumn after moves of both players *)
C16_Witness ==
    /\ game.pc = "done"
    /\ game.result.tag = "Err"
    /\ game.result.error.tag = "FullColumn"
    /\ game.applied >= 2

MoverWon(st) == Owns(1 - st.next_player, st.board)

(***************************************************************************)
(* C18: when the candidate column completes a four-in-a-row of player, its *)
(* simulations ask no agent and apply no move, each is counted as a win,   *)
(* and the score of the column is 1.                                       *)
(***************************************************************************)
C18_WinningCandidateScoresOne ==
    mcts.pc \in {"candidate", "simulate"} =>
        /\ (mcts.pc = "simulate" /\ MoverWon(mcts.next_state)) =>
              /\ sim.asks = 0
              /\ sim.applied = 0
              /\ mcts.tally.wins = mcts.i
        /\ \A k \in 1 .. Len(mcts.scores) :
              MoverWon(apply_action(game.state, mcts.candidates[k]).state) =>
                  mcts.scores[k] = Score(100)

(* in the state of the play call f no two players own a four-in-a-row, and *)
(* a winner found after a move is the player who made that move            *)
MoverIsWinner(f) ==
    f.pc # "idle" =>
        /\ ~(Owns(0, f.state.board) /\ Owns(1, f.state.board))
        /\ \A p \in Players :
              f.status = Over(Winner(p)) => p = 1 - f.state.next_player

(***************************************************************************)
(* C19: in every state a play call of the program reaches, in the game and *)
(* in the simulations, at most one player owns a four-in-a-row, and the    *)
(* winner reported after a move is the player who made the move.           *)
(***************************************************************************)
C19_MoverIsTheWinner == MoverIsWinner(game) /\ MoverIsWinner(sim)

(***************************************************************************)
(* C20: in every state reached by apply_action calls from the empty board  *)
(* and for every column index, in range or not, check_action is true       *)
(* exactly when apply_action succeeds; the top cell of a column is         *)
(* occupied exactly when every row of the column is; and a check_action    *)
(* call leaves the state as it was.                                        *)
(***************************************************************************)
C20_CheckAgreesWithApply ==
    /\ \A a \in 0 .. MaxColumn :
          check_action(state, a) <=> apply_action(state, a).ret.tag = "Ok"
    /\ \A c \in Columns :
          state.board[c * ROWS + ROWS - 1] # None <=>
              \A r \in Rows : state.board[c * ROWS + r] # None
    /\ call.op = "check_action" =>
          /\ state = call.before
          /\ ret.value = (apply_action(state, call.column).ret.tag = "Ok")
          /\ ret.value = (call.column \in Columns /\ Height(state.board, call.column) < ROWS)

(* check_action refused a full column after drops had been applied *)
C20_Witness ==
    /\ call.op = "check_action"
    /\ ret.value = FALSE
    /\ call.column \in Columns
    /\ moves >= 2
    /\ \E c \in Columns : Height(state.board, c) \in 1 .. (ROWS - 1)

====
